---- MODULE Spec2Model ----
(***************************************************************************)
(* Model of the to-do list panel (ToDoList.py; ToDoPanel.py carries the    *)
(* same Task / TaskStore code).  A Task object is a heap cell addressed by *)
(* an identifier; TaskStore.tasks is the sequence of the identifiers in    *)
(* storage order.  The settings file is kept as the element tree that      *)
(* ElementTree writes and parses: every text is a string, numbers are      *)
(* written with str() and read back with int().                            *)
(***************************************************************************)
EXTENDS Integers, Sequences, FiniteSets, TLC

VARIABLES
    tasks,        \* TaskStore.tasks: task identifiers in storage order
    obj,          \* the Task objects: identifier -> [name, priority, status, index]
    hide,         \* hideButton.isChecked()
    sortOn,       \* sortButton.isChecked()
    settingsFile, \* MainWindow.settingsFile
    tasksFile,    \* TaskStore.tasksFile
    files,        \* the file system: path -> document
    op,           \* the call that produced this state
    pre,          \* the store as it was when that call started
    raised,       \* the exception that ended the process, "none" while it runs
    clipboard,    \* the text this call put on the clipboard, line by line
    view          \* MainWindow: taskWidgets, the widgets still parented, animation groups

vars ==
    <<tasks, obj, hide, sortOn, settingsFile, tasksFile, files, op, pre,
      raised, clipboard, view>>

-----------------------------------------------------------------------------
(* Bounds of the model *)

MaxIds == 3          \* Task objects a process may allocate
MaxFileTasks == 2    \* Task records in an initial file

(* Program constants *)

DefaultPriority == 1
DefaultStatus == 0
DefaultIndex == 0
Finished == 2
Hidden == -1
Deleted == -2
DefaultName == "new task"
DefaultPath == "/tmp/settings.xml"

Ids == 1..MaxIds
Paths == {DefaultPath, "/tmp/other.xml"}

-----------------------------------------------------------------------------
(* Sequences *)

Range(s) == {s[i] : i \in 1..Len(s)}

Pos(s, x) == CHOOSE i \in 1..Len(s) : s[i] = x

Reverse(s) == [i \in 1..Len(s) |-> s[Len(s) + 1 - i]]

-----------------------------------------------------------------------------
(* str() and int() on integers: decimal text as a sequence of characters *)

Digit == <<"0", "1", "2", "3", "4", "5", "6", "7", "8", "9">>

RECURSIVE NatToStr(_)
NatToStr(n) ==
    IF n < 10 THEN <<Digit[n + 1]>>
    ELSE NatToStr(n \div 10) \o <<Digit[(n % 10) + 1]>>

IntToStr(n) == IF n < 0 THEN <<"-">> \o NatToStr(0 - n) ELSE NatToStr(n)

IsDigit(c) == \E d \in 1..10 : Digit[d] = c

DigitVal(c) == (CHOOSE d \in 1..10 : Digit[d] = c) - 1

RECURSIVE DigitsToNat(_)
DigitsToNat(s) ==
    IF Len(s) = 0 THEN 0
    ELSE 10 * DigitsToNat(SubSeq(s, 1, Len(s) - 1)) + DigitVal(s[Len(s)])

AllDigits(s) == Len(s) > 0 /\ \A i \in 1..Len(s) : IsDigit(s[i])

IsIntText(s) ==
    \/ AllDigits(s)
    \/ Len(s) > 1 /\ s[1] \in {"-", "+"} /\ AllDigits(Tail(s))

StrToInt(s) ==
    IF s[1] = "-" THEN 0 - DigitsToNat(Tail(s))
    ELSE IF s[1] = "+" THEN DigitsToNat(Tail(s))
    ELSE DigitsToNat(s)

BoolToStr(b) == IF b THEN "True" ELSE "False"

-----------------------------------------------------------------------------
(* Task *)

Task(name, priority, status) ==
    [name |-> name, priority |-> priority, status |-> status, index |-> DefaultIndex]

NewTask == Task(DefaultName, DefaultPriority, DefaultStatus)

FreeId(o) == CHOOSE id \in Ids \ DOMAIN o : \A other \in Ids \ DOMAIN o : id <= other

Put(o, id, t) == [x \in DOMAIN o \cup {id} |-> IF x = id THEN t ELSE o[x]]

-----------------------------------------------------------------------------
(* TaskStore: the methods that write indices *)

(* mutant: the position is written to the priority *)
resetTasks_WritesPriority(ts, o) ==
    [id \in DOMAIN o |->
        IF id \in Range(ts) THEN [o[id] EXCEPT !.priority = Pos(ts, id) - 1] ELSE o[id]]

(* mutant: numbers the tasks 1..n, as the docstring of resetTasks words it *)
resetTasks_FromOne(ts, o) ==
    [id \in DOMAIN o |->
        IF id \in Range(ts) THEN [o[id] EXCEPT !.index = Pos(ts, id)] ELSE o[id]]

resetTasks(ts, o) ==
    [id \in DOMAIN o |->
        IF id \in Range(ts) THEN [o[id] EXCEPT !.index = Pos(ts, id) - 1] ELSE o[id]]

(* mutant: every finished Task object is hidden, stored or not *)
filterFinished_AllObjects(ts, o, hideFinished) ==
    [id \in DOMAIN o |->
        IF hideFinished /\ o[id].status = Finished
        THEN [o[id] EXCEPT !.index = Hidden]
        ELSE o[id]]

(* mutant: hides the finished tasks whatever the flag says *)
filterFinished_IgnoresFlag(ts, o, hideFinished) ==
    [id \in DOMAIN o |->
        IF id \in Range(ts) /\ o[id].status = Finished
        THEN [o[id] EXCEPT !.index = Hidden]
        ELSE o[id]]

filterFinished(ts, o, hideFinished) ==
    [id \in DOMAIN o |->
        IF id \in Range(ts) /\ hideFinished /\ o[id].status = Finished
        THEN [o[id] EXCEPT !.index = Hidden]
        ELSE o[id]]

(* mutant: an insertion that puts a task before its equals *)
RECURSIVE InsertByPriority_Unstable(_, _, _)
InsertByPriority_Unstable(o, s, id) ==
    IF Len(s) = 0 THEN <<id>>
    ELSE IF o[s[Len(s)]].priority < o[id].priority THEN Append(s, id)
    ELSE Append(InsertByPriority_Unstable(o, SubSeq(s, 1, Len(s) - 1), id), s[Len(s)])

(* sorted(..., key=priority): a stable insertion sort *)
RECURSIVE InsertByPriority(_, _, _)
InsertByPriority(o, s, id) ==
    IF Len(s) = 0 THEN <<id>>
    ELSE IF o[s[Len(s)]].priority <= o[id].priority THEN Append(s, id)
    ELSE Append(InsertByPriority(o, SubSeq(s, 1, Len(s) - 1), id), s[Len(s)])

RECURSIVE Sorted(_, _)
Sorted(o, s) ==
    IF Len(s) = 0 THEN <<>>
    ELSE InsertByPriority(o, Sorted(o, SubSeq(s, 1, Len(s) - 1)), s[Len(s)])

Shown(ts, o) == SelectSeq(ts, LAMBDA id : o[id].index >= 0)

(* mutant: the reversal is left out *)
sortedTasks_NeverReversed(ts, o, active) == Sorted(o, Shown(ts, o))

(* mutant: sorted(..., reverse=True), which keeps equal priorities in storage order *)
sortedTasks_StableDescending(ts, o, active) ==
    IF active THEN Reverse(Sorted(o, Reverse(Shown(ts, o)))) ELSE Sorted(o, Shown(ts, o))

sortedTasks(ts, o, active) ==
    IF active THEN Reverse(Sorted(o, Shown(ts, o))) ELSE Sorted(o, Shown(ts, o))

sortByPriority(ts, o, active) ==
    LET ranked == Shown(sortedTasks(ts, o, active), o)
    IN  [id \in DOMAIN o |->
            IF id \in Range(ranked) THEN [o[id] EXCEPT !.index = Pos(ranked, id) - 1]
            ELSE o[id]]

(* mutant: the pass starts from the indices of the pass before *)
applyFilterAndSorting_NoReset(ts, o, hideFinished, active) ==
    sortByPriority(ts, filterFinished(ts, o, hideFinished), active)

applyFilterAndSorting(ts, o, hideFinished, active) ==
    sortByPriority(ts, filterFinished(ts, resetTasks(ts, o), hideFinished), active)

-----------------------------------------------------------------------------
(* The settings file as ElementTree sees it.  An element's text is kept as *)
(* a set: empty when the parsed element has no text (None), else {text}.   *)

ElementText(t) == IF Len(t) = 0 THEN {} ELSE {t}

findtext(e) == IF e = {} THEN "" ELSE CHOOSE t \in e : TRUE

NoFile == [exists |-> FALSE, settings |-> {}, tasks |-> <<>>]

TaskElement(t) ==
    [name     |-> ElementText(t.name),
     priority |-> ElementText(IntToStr(t.priority)),
     status   |-> ElementText(IntToStr(t.status)),
     index    |-> ElementText(IntToStr(t.index))]

SettingsElement(hideFinished, sortState) ==
    [hideFinished |-> ElementText(BoolToStr(hideFinished)),
     sortState    |-> ElementText(BoolToStr(sortState))]

(* MainWindow.saveSettingsAndTasks: the document written to settingsFile *)
Document(ts, o, hideFinished, sortState) ==
    [exists   |-> TRUE,
     settings |-> {SettingsElement(hideFinished, sortState)},
     tasks    |-> [i \in 1..Len(ts) |-> TaskElement(o[ts[i]])]]

(* TaskStore.loadTasks: the list of Task objects built from a document *)
loadError(doc) ==
    IF doc.exists /\ \E i \in 1..Len(doc.tasks) :
            \/ ~IsIntText(findtext(doc.tasks[i].priority))
            \/ ~IsIntText(findtext(doc.tasks[i].status))
    THEN "ValueError" ELSE "none"

(* mutant: a file without Task records gives an empty store *)
loadTasks_NoDefault(doc) ==
    IF doc.exists
    THEN [i \in 1..Len(doc.tasks) |->
             Task(findtext(doc.tasks[i].name),
                  StrToInt(findtext(doc.tasks[i].priority)),
                  StrToInt(findtext(doc.tasks[i].status)))]
    ELSE <<NewTask>>

(* mutant: priority and status are read from each other's element *)
loadTasks_SwappedFields(doc) ==
    IF doc.exists
    THEN IF Len(doc.tasks) = 0
         THEN <<NewTask>>
         ELSE [i \in 1..Len(doc.tasks) |->
                 Task(findtext(doc.tasks[i].name),
                      StrToInt(findtext(doc.tasks[i].status)),
                      StrToInt(findtext(doc.tasks[i].priority)))]
    ELSE <<NewTask>>

loadTasks(doc) ==
    IF doc.exists
    THEN IF Len(doc.tasks) = 0
         THEN <<NewTask>>
         ELSE [i \in 1..Len(doc.tasks) |->
                 Task(findtext(doc.tasks[i].name),
                      StrToInt(findtext(doc.tasks[i].priority)),
                      StrToInt(findtext(doc.tasks[i].status)))]
    ELSE <<NewTask>>

(* TaskStore.__init__: fresh objects in file order, then resetTasks *)
LoadedIds(doc) == [i \in 1..Len(loadTasks(doc)) |-> i]

LoadedObj(doc) ==
    resetTasks(LoadedIds(doc), [i \in 1..Len(loadTasks(doc)) |-> loadTasks(doc)[i]])

-----------------------------------------------------------------------------
(* Initial state: MainWindow.__init__ has built the TaskStore *)

(* the records a file may hold; loadTasks takes any integer as a status,   *)
(* so one of them has a status that is none of 0, 1, 2                     *)
InitTasks ==
    {Task("A", 1, 2), Task("B", 10, 3), Task("", -1, 2)}

InitTaskElements == {TaskElement(t) : t \in InitTasks}

(* records whose priority or status text is no integer literal *)
BadTaskElements ==
    {[name |-> {"A"}, priority |-> {<<"x">>}, status |-> {<<"0">>}, index |-> {<<"0">>}],
     [name |-> {"B"}, priority |-> {<<"1">>}, status |-> {}, index |-> {<<"0">>}]}

InitDocs ==
    {NoFile} \cup
    {[exists |-> TRUE, settings |-> {SettingsElement(FALSE, FALSE)}, tasks |-> ts] :
        ts \in UNION {[1..n -> InitTaskElements \cup BadTaskElements] :
                        n \in 0..MaxFileTasks}}

(* mutant: a load that fails is answered with the default task *)
Constructed_DefaultOnError(doc) ==
    IF loadError(doc) = "none"
    THEN [tasks |-> LoadedIds(doc), obj |-> LoadedObj(doc), raised |-> "none"]
    ELSE [tasks |-> <<1>>, obj |-> <<NewTask>>, raised |-> "none"]

(* TaskStore.__init__ and its caller: the exception of loadTasks is not caught *)
Constructed(doc) ==
    IF loadError(doc) = "none"
    THEN [tasks |-> LoadedIds(doc), obj |-> LoadedObj(doc), raised |-> "none"]
    ELSE [tasks |-> <<>>, obj |-> <<>>, raised |-> loadError(doc)]

(* MainWindow before setupUI has run *)
NoView ==
    [taskWidgets |-> <<>>, attached |-> {}, animGroup |-> {},
     animGroupsDeleted |-> <<>>, grouped |-> <<>>, value |-> <<>>]

Call(name, flag, id, path) == [name |-> name, flag |-> flag, id |-> id, path |-> path]

Store == [tasks |-> tasks, obj |-> obj]

Init ==
    /\ settingsFile \in Paths
    /\ tasksFile = DefaultPath
    /\ \E doc \in InitDocs :
        /\ files = [p \in Paths |-> IF p = DefaultPath THEN doc ELSE NoFile]
        /\ tasks = Constructed(doc).tasks
        /\ obj = Constructed(doc).obj
        /\ raised = Constructed(doc).raised
    /\ hide = FALSE
    /\ sortOn = FALSE
    /\ op = Call("MainWindow", FALSE, 0, DefaultPath)
    /\ pre = [tasks |-> <<>>, obj |-> <<>>]
    /\ clipboard = <<>>
    /\ view = NoView

-----------------------------------------------------------------------------
(* Calls *)

(* One process is followed from its construction to its shutdown (the save *)
(* of closeEvent / hideEvent) and to the construction of the next process. *)
Closed == op.name = "saveSettingsAndTasks"

Running == op.name \notin {"saveSettingsAndTasks", "TaskStore"} /\ raised = "none"

TaskStoreInit(path) ==
    /\ Closed
    /\ loadError(files[path]) = "none"
    /\ tasksFile' = path
    /\ tasks' = LoadedIds(files[path])
    /\ obj' = LoadedObj(files[path])
    /\ op' = Call("TaskStore", FALSE, 0, path)
    /\ pre' = Store
    /\ UNCHANGED <<hide, sortOn, settingsFile, files>>
    /\ clipboard' = <<>>
    /\ UNCHANGED <<raised, view>>

(* mutant: the new task goes to the end of the list *)
addTask_Append(ts, id) == Append(ts, id)

addTask(ts, id) == <<id>> \o ts

AddTask ==
    /\ Running
    /\ DOMAIN obj # Ids
    /\ tasks' = addTask(tasks, FreeId(obj))
    /\ obj' = Put(obj, FreeId(obj), NewTask)
    /\ op' = Call("addTask", FALSE, FreeId(obj), "")
    /\ pre' = Store
    /\ UNCHANGED <<hide, sortOn, settingsFile, tasksFile, files>>
    /\ clipboard' = <<>>
    /\ UNCHANGED <<raised, view>>

(* mutant: tasks are compared by their fields, not by identity *)
deleteTask_ByFields(ts, o, id) ==
    SelectSeq(ts, LAMBDA t :
        \/ o[t].name # o[id].name
        \/ o[t].priority # o[id].priority
        \/ o[t].status # o[id].status)

deleteTask(ts, o, id) == SelectSeq(ts, LAMBDA t : t # id)

DeleteTask(id) ==
    /\ Running
    /\ id \in Range(tasks)
    /\ tasks' = deleteTask(tasks, obj, id)
    /\ obj' = resetTasks(deleteTask(tasks, obj, id), [obj EXCEPT ![id].index = Deleted])
    /\ op' = Call("deleteTask", FALSE, id, "")
    /\ pre' = Store
    /\ UNCHANGED <<hide, sortOn, settingsFile, tasksFile, files>>
    /\ clipboard' = <<>>
    /\ UNCHANGED <<raised, view>>

ResetTasks ==
    /\ Running
    /\ obj' = resetTasks(tasks, obj)
    /\ op' = Call("resetTasks", FALSE, 0, "")
    /\ pre' = Store
    /\ UNCHANGED <<tasks, hide, sortOn, settingsFile, tasksFile, files>>
    /\ clipboard' = <<>>
    /\ UNCHANGED <<raised, view>>

FilterFinished(hideFinished) ==
    /\ Running
    /\ obj' = filterFinished(tasks, obj, hideFinished)
    /\ op' = Call("filterFinished", hideFinished, 0, "")
    /\ pre' = Store
    /\ UNCHANGED <<tasks, hide, sortOn, settingsFile, tasksFile, files>>
    /\ clipboard' = <<>>
    /\ UNCHANGED <<raised, view>>

SortByPriority(active) ==
    /\ Running
    /\ obj' = sortByPriority(tasks, obj, active)
    /\ op' = Call("sortByPriority", active, 0, "")
    /\ pre' = Store
    /\ UNCHANGED <<tasks, hide, sortOn, settingsFile, tasksFile, files>>
    /\ clipboard' = <<>>
    /\ UNCHANGED <<raised, view>>

ApplyFilterAndSorting ==
    /\ Running
    /\ obj' = applyFilterAndSorting(tasks, obj, hide, sortOn)
    /\ op' = Call("applyFilterAndSorting", FALSE, 0, "")
    /\ pre' = Store
    /\ UNCHANGED <<tasks, hide, sortOn, settingsFile, tasksFile, files>>
    /\ clipboard' = <<>>
    /\ UNCHANGED <<raised, view>>

HideClicked ==
    /\ Running
    /\ hide' = ~hide
    /\ obj' = applyFilterAndSorting(tasks, obj, ~hide, sortOn)
    /\ op' = Call("applyFilterAndSorting", FALSE, 0, "")
    /\ pre' = Store
    /\ UNCHANGED <<tasks, sortOn, settingsFile, tasksFile, files>>
    /\ clipboard' = <<>>
    /\ UNCHANGED <<raised, view>>

SortClicked ==
    /\ Running
    /\ sortOn' = ~sortOn
    /\ obj' = applyFilterAndSorting(tasks, obj, hide, ~sortOn)
    /\ op' = Call("applyFilterAndSorting", FALSE, 0, "")
    /\ pre' = Store
    /\ UNCHANGED <<tasks, hide, settingsFile, tasksFile, files>>
    /\ clipboard' = <<>>
    /\ UNCHANGED <<raised, view>>

SaveSettingsAndTasks ==
    /\ Running
    /\ files' = [files EXCEPT ![settingsFile] = Document(tasks, obj, hide, sortOn)]
    /\ op' = Call("saveSettingsAndTasks", FALSE, 0, settingsFile)
    /\ pre' = Store
    /\ UNCHANGED <<tasks, obj, hide, sortOn, settingsFile, tasksFile>>
    /\ clipboard' = <<>>
    /\ UNCHANGED <<raised, view>>

(* str(task): the priority, the name and the word of the status *)
StatusWords == <<"waiting", "in progress", "finished">>

(* list indexing: a negative index counts from the end, any other index   *)
(* outside the list raises IndexError                                     *)
StatusWord(status) ==
    IF status \in 0..(Len(StatusWords) - 1) THEN StatusWords[status + 1]
    ELSE IF status \in (0 - Len(StatusWords))..(-1) THEN StatusWords[status + Len(StatusWords) + 1]
    ELSE "IndexError"

TaskLine(t) ==
    [priority |-> IntToStr(t.priority), name |-> t.name, status |-> StatusWord(t.status)]

copyError(ts, o, active) ==
    IF \E i \in 1..Len(sortedTasks(ts, o, active)) :
            o[sortedTasks(ts, o, active)[i]].status
                \notin (0 - Len(StatusWords))..(Len(StatusWords) - 1)
    THEN "IndexError"
    ELSE "none"

clipboardText(ts, o, active) ==
    [i \in 1..Len(sortedTasks(ts, o, active)) |-> TaskLine(o[sortedTasks(ts, o, active)[i]])]

CopyToClipboard ==
    /\ Running
    /\ raised' = copyError(tasks, obj, sortOn)
    /\ clipboard' = IF raised' = "none" THEN clipboardText(tasks, obj, sortOn) ELSE <<>>
    /\ op' = Call("copyToClipboard", FALSE, 0, "")
    /\ pre' = Store
    /\ UNCHANGED <<tasks, obj, hide, sortOn, settingsFile, tasksFile, files, view>>

Next ==
    \/ \E path \in Paths : TaskStoreInit(path)
    \/ AddTask
    \/ \E id \in Ids : DeleteTask(id)
    \/ ResetTasks
    \/ \E hideFinished \in BOOLEAN : FilterFinished(hideFinished)
    \/ \E active \in BOOLEAN : SortByPriority(active)
    \/ ApplyFilterAndSorting
    \/ HideClicked
    \/ SortClicked
    \/ SaveSettingsAndTasks
    \/ CopyToClipboard

Spec == Init /\ [][Next]_vars

-----------------------------------------------------------------------------
(* The panel as the user drives it: every action is one completed event    *)
(* handler with all the slots connected to it.  A TaskWidget is named by   *)
(* the identifier of its task.                                             *)

MaxRows == 2         \* rows one process creates, those built from the file included

MaxPriority == 1     \* clicks keep a priority within -MaxPriority..MaxPriority

(* MainWindow.addTaskWidget *)
(* TaskWidget.__init__: priorityWidget.setValue(self.task.priority) on a   *)
(* PriorityWidget whose value starts at 0                                  *)
priorityValue_Unset(t) == 0

priorityValue(t) == t.priority

addTaskWidget(v, w) ==
    [v EXCEPT !.taskWidgets = Append(@, w),
              !.attached = @ \cup {w},
              !.grouped = Put(@, w, 0),
              !.value = Put(@, w, priorityValue(NewTask))]

(* MainWindow.update: one animation per widget of taskWidgets, those of    *)
(* tasks with index -2 in a group of their own that is kept until finished *)
DeletedWidgets(v, o) == SelectSeq(v.taskWidgets, LAMBDA w : o[w].index = Deleted)

update(v, o) ==
    [v EXCEPT
        !.animGroup = {w \in Range(v.taskWidgets) : o[w].index # Deleted},
        !.animGroupsDeleted =
            IF Len(DeletedWidgets(v, o)) > 0 THEN Append(@, DeletedWidgets(v, o)) ELSE @,
        !.grouped =
            [w \in DOMAIN @ |->
                IF w \in Range(DeletedWidgets(v, o)) THEN @[w] + 1 ELSE @[w]]]

(* MainWindow.deleteTask *)
removeTaskWidget_Keeps(v, w) == v

removeTaskWidget(v, w) ==
    [v EXCEPT !.taskWidgets = SelectSeq(@, LAMBDA x : x # w)]

RemoveAt(s, i) == SubSeq(s, 1, i - 1) \o SubSeq(s, i + 1, Len(s))

(* MainWindow.deleteTaskWidget, called when group i has finished *)
deleteTaskWidget(v, i) ==
    [v EXCEPT !.attached = @ \ {v.animGroupsDeleted[i][1]},
              !.animGroupsDeleted = RemoveAt(@, i)]

(* MainWindow.setupUI: a widget per stored task, then update *)
setupUI(ts, o) ==
    update([taskWidgets |-> ts, attached |-> Range(ts), animGroup |-> {},
            animGroupsDeleted |-> <<>>, grouped |-> [w \in Range(ts) |-> 0],
            value |-> [w \in Range(ts) |-> priorityValue(o[w])]], o)

(* eval() of the text of a settings element *)
EvalError(t) == IF t \in {"True", "False"} THEN "none" ELSE "NameError"

Eval_Truthy(t) == t # ""

Eval(t) == t = "True"

(* MainWindow.loadSettings *)
loadSettings(doc) ==
    IF ~doc.exists THEN [hide |-> FALSE, sortOn |-> FALSE, raised |-> "none"]
    ELSE IF doc.settings = {} THEN [hide |-> FALSE, sortOn |-> FALSE, raised |-> "AttributeError"]
    ELSE LET settings == CHOOSE e \in doc.settings : TRUE
         IN  IF EvalError(findtext(settings.hideFinished)) # "none"
             THEN [hide |-> FALSE, sortOn |-> FALSE, raised |-> "NameError"]
             ELSE IF EvalError(findtext(settings.sortState)) # "none"
             THEN [hide |-> Eval(findtext(settings.hideFinished)), sortOn |-> FALSE,
                   raised |-> "NameError"]
             ELSE [hide |-> Eval(findtext(settings.hideFinished)),
                   sortOn |-> Eval(findtext(settings.sortState)),
                   raised |-> "none"]

(* MainWindow.__init__: TaskStore(), setupUI, controller (loadSettings,    *)
(* applyFilterAndSorting)                                                  *)
Started(fs, sf) ==
    LET store == Constructed(fs[DefaultPath])
        set == loadSettings(fs[sf])
    IN  IF store.raised # "none"
        THEN [tasks |-> <<>>, obj |-> <<>>, hide |-> FALSE, sortOn |-> FALSE,
              raised |-> store.raised, view |-> NoView]
        ELSE IF set.raised # "none"
        THEN [tasks |-> store.tasks, obj |-> store.obj, hide |-> set.hide,
              sortOn |-> set.sortOn, raised |-> set.raised,
              view |-> setupUI(store.tasks, store.obj)]
        ELSE LET o == applyFilterAndSorting(store.tasks, store.obj, set.hide, set.sortOn)
             IN  [tasks |-> store.tasks, obj |-> o, hide |-> set.hide,
                  sortOn |-> set.sortOn, raised |-> "none",
                  view |-> update(setupUI(store.tasks, store.obj), o)]

(* the program as it is launched: MainWindow() with the default path *)
AppInit ==
    /\ settingsFile = DefaultPath
    /\ tasksFile = DefaultPath
    /\ \E doc \in InitDocs :
        files = [p \in Paths |-> IF p = DefaultPath THEN doc ELSE NoFile]
    /\ tasks = Started(files, settingsFile).tasks
    /\ obj = Started(files, settingsFile).obj
    /\ hide = Started(files, settingsFile).hide
    /\ sortOn = Started(files, settingsFile).sortOn
    /\ raised = Started(files, settingsFile).raised
    /\ view = Started(files, settingsFile).view
    /\ op = Call("MainWindow", FALSE, 0, DefaultPath)
    /\ pre = [tasks |-> <<>>, obj |-> <<>>]
    /\ clipboard = <<>>

(* the process that is followed: not ended, and not the one started after it *)
AppRunning == Running /\ ~(op.name = "MainWindow" /\ op.flag)

(* the next process: MainWindow.__init__ on the files the last one left *)
MainWindowInit ==
    /\ Closed
    /\ tasks' = Started(files, settingsFile).tasks
    /\ obj' = Started(files, settingsFile).obj
    /\ hide' = Started(files, settingsFile).hide
    /\ sortOn' = Started(files, settingsFile).sortOn
    /\ raised' = Started(files, settingsFile).raised
    /\ view' = Started(files, settingsFile).view
    /\ op' = Call("MainWindow", TRUE, 0, DefaultPath)
    /\ pre' = pre
    /\ clipboard' = <<>>
    /\ UNCHANGED <<settingsFile, tasksFile, files>>

(* MainWindow.onAddTask *)
onAddTask_NoRecompute(ts, o, id, hideFinished, active) ==
    Put(o, id, NewTask)

onAddTask(ts, o, id, hideFinished, active) ==
    applyFilterAndSorting(addTask(ts, id), Put(o, id, NewTask), hideFinished, active)

OnAddTask ==
    /\ AppRunning
    /\ Cardinality(DOMAIN obj) < MaxRows
    /\ tasks' = addTask(tasks, FreeId(obj))
    /\ obj' = onAddTask(tasks, obj, FreeId(obj), hide, sortOn)
    /\ view' = update(addTaskWidget(view, FreeId(obj)), obj')
    /\ op' = Call("onAddTask", FALSE, 0, "")
    /\ pre' = pre
    /\ clipboard' = <<>>
    /\ UNCHANGED <<hide, sortOn, settingsFile, tasksFile, files, raised>>

(* TaskStore.deleteTask: the store after the slot has run *)
deleted_MarkedOnly(ts, o, id) ==
    [tasks |-> ts, obj |-> [o EXCEPT ![id].index = Deleted]]

deleted(ts, o, id) ==
    [tasks |-> deleteTask(ts, o, id),
     obj |-> resetTasks(deleteTask(ts, o, id), [o EXCEPT ![id].index = Deleted])]

(* deleteWidget.clicked of row w: TaskStore.deleteTask, MainWindow.update, *)
(* MainWindow.deleteTask, in the order they were connected                 *)
deleteClicked_RemovedFirst(v, ts, o, w) ==
    update(removeTaskWidget(v, w), deleted(ts, o, w).obj)

deleteClicked(v, ts, o, w) == removeTaskWidget(update(v, deleted(ts, o, w).obj), w)

OnDeleteClicked(w) ==
    /\ AppRunning
    /\ w \in view.attached
    /\ tasks' = deleted(tasks, obj, w).tasks
    /\ obj' = deleted(tasks, obj, w).obj
    /\ view' = deleteClicked(view, tasks, obj, w)
    /\ op' = Call("deleteClicked", FALSE, 0, "")
    /\ pre' = pre
    /\ clipboard' = <<>>
    /\ UNCHANGED <<hide, sortOn, settingsFile, tasksFile, files, raised>>

(* statusWidget.currentIndexChanged of row w: Task.setStatus, then the pass. *)
(* The rows edited are those of stored tasks: an edit of a row that is     *)
(* sliding out changes a task no list holds, and the pass it runs is the   *)
(* one OnPriorityLeave runs for that row.                                  *)
statusChanged_PassFirst(ts, o, w, status, hideFinished, active) ==
    [applyFilterAndSorting(ts, o, hideFinished, active) EXCEPT ![w].status = status]

statusChanged(ts, o, w, status, hideFinished, active) ==
    applyFilterAndSorting(ts, [o EXCEPT ![w].status = status], hideFinished, active)

OnStatusChanged(w, status) ==
    /\ AppRunning
    /\ w \in Range(view.taskWidgets)
    /\ status # obj[w].status
    /\ obj' = statusChanged(tasks, obj, w, status, hide, sortOn)
    /\ view' = update(view, obj')
    /\ op' = Call("statusChanged", FALSE, w, "")
    /\ pre' = pre
    /\ clipboard' = <<>>
    /\ UNCHANGED <<tasks, hide, sortOn, settingsFile, tasksFile, files, raised>>

(* PriorityWidget.mousePressEvent of row w: setValue, Task.setPriority *)
mousePressEvent(value, step) == value + step

OnPriorityClicked(w, step) ==
    /\ AppRunning
    /\ w \in Range(view.taskWidgets)
    /\ mousePressEvent(view.value[w], step) \in (0 - MaxPriority)..MaxPriority
    /\ view' = [view EXCEPT !.value[w] = mousePressEvent(@, step)]
    /\ obj' = [obj EXCEPT ![w].priority = view'.value[w]]
    /\ op' = Call("priorityClicked", step > 0, w, "")
    /\ pre' = pre
    /\ clipboard' = <<>>
    /\ UNCHANGED <<tasks, hide, sortOn, settingsFile, tasksFile, files, raised>>

(* PriorityWidget.leaveEvent: allowSorting, connected to the pass *)
OnPriorityLeave(w) ==
    /\ AppRunning
    /\ w \in view.attached
    /\ obj' = applyFilterAndSorting(tasks, obj, hide, sortOn)
    /\ view' = update(view, obj')
    /\ op' = Call("priorityLeave", FALSE, 0, "")
    /\ pre' = pre
    /\ clipboard' = <<>>
    /\ UNCHANGED <<tasks, hide, sortOn, settingsFile, tasksFile, files, raised>>

OnHideClicked ==
    /\ AppRunning
    /\ hide' = ~hide
    /\ obj' = applyFilterAndSorting(tasks, obj, ~hide, sortOn)
    /\ view' = update(view, obj')
    /\ op' = Call("hideClicked", FALSE, 0, "")
    /\ pre' = pre
    /\ clipboard' = <<>>
    /\ UNCHANGED <<tasks, sortOn, settingsFile, tasksFile, files, raised>>

OnSortClicked ==
    /\ AppRunning
    /\ sortOn' = ~sortOn
    /\ obj' = applyFilterAndSorting(tasks, obj, hide, ~sortOn)
    /\ view' = update(view, obj')
    /\ op' = Call("sortClicked", FALSE, 0, "")
    /\ pre' = pre
    /\ clipboard' = <<>>
    /\ UNCHANGED <<tasks, hide, settingsFile, tasksFile, files, raised>>

(* the finished signal of the i-th kept group: MainWindow.deleteTaskWidget *)
AnimationFinished(i) ==
    /\ AppRunning
    /\ i \in 1..Len(view.animGroupsDeleted)
    /\ view' = deleteTaskWidget(view, i)
    /\ op' = Call("deleteTaskWidget", FALSE, 0, "")
    /\ pre' = pre
    /\ clipboard' = <<>>
    /\ UNCHANGED <<tasks, obj, hide, sortOn, settingsFile, tasksFile, files, raised>>

(* clipboardButton.clicked: MainWindow.copyToClipboard *)
OnClipboardClicked ==
    /\ AppRunning
    /\ raised' = copyError(tasks, obj, sortOn)
    /\ clipboard' = IF raised' = "none" THEN clipboardText(tasks, obj, sortOn) ELSE <<>>
    /\ op' = Call("copyToClipboard", FALSE, 0, "")
    /\ pre' = pre
    /\ UNCHANGED <<tasks, obj, hide, sortOn, settingsFile, tasksFile, files, view>>

(* MainWindow.closeEvent / hideEvent *)
CloseEvent ==
    /\ AppRunning
    /\ files' = [files EXCEPT ![settingsFile] = Document(tasks, obj, hide, sortOn)]
    /\ op' = Call("saveSettingsAndTasks", FALSE, 0, settingsFile)
    /\ pre' = pre
    /\ clipboard' = <<>>
    /\ UNCHANGED <<tasks, obj, hide, sortOn, settingsFile, tasksFile, raised, view>>

AppNext ==
    \/ MainWindowInit
    \/ OnAddTask
    \/ \E w \in Ids : OnDeleteClicked(w)
    \/ \E w \in Ids : \E status \in 0..Finished : OnStatusChanged(w, status)
    \/ \E w \in Ids : \E step \in {-1, 1} : OnPriorityClicked(w, step)
    \/ \E w \in Ids : OnPriorityLeave(w)
    \/ OnHideClicked
    \/ OnSortClicked
    \/ \E i \in 1..MaxIds : AnimationFinished(i)
    \/ OnClipboardClicked
    \/ CloseEvent

AppSpec == AppInit /\ [][AppNext]_vars

(* The first launch, with no file written yet, and every started group of  *)
(* a deleted row finishing its 1000 ms animation while the process runs.   *)
AppFirstInit == AppInit /\ ~files[DefaultPath].exists

AppFairSpec ==
    /\ AppFirstInit
    /\ [][AppNext]_vars
    /\ WF_vars(\E i \in 1..MaxIds : AnimationFinished(i))

-----------------------------------------------------------------------------
(* Properties *)

Stored == Range(tasks)

Visible == {id \in Stored : ~(hide /\ obj[id].status = Finished)}

Ranked == {id \in Stored : obj[id].index >= 0}

PreStored == Range(pre.tasks)

PreRanked == {id \in PreStored : pre.obj[id].index >= 0}

Earlier(a, b) == Pos(pre.tasks, a) < Pos(pre.tasks, b)

SameFields(t, u) ==
    t.name = u.name /\ t.priority = u.priority /\ t.status = u.status

(* C1: right after a recompute pass (resetTasks, filterFinished(hide),      *)
(* sortByPriority(desc)) the tasks with index >= 0 are exactly the visible  *)
(* ones (all of them, or the unfinished ones when hide is checked), their   *)
(* indices are exactly 0..k-1 without repetition, and every other stored    *)
(* task has index -1.                                                       *)
C1_RecomputeRanksVisible ==
    op.name = "applyFilterAndSorting" =>
        /\ Ranked = Visible
        /\ {obj[id].index : id \in Visible} = 0..(Cardinality(Visible) - 1)
        /\ \A a, b \in Visible : a # b => obj[a].index # obj[b].index
        /\ \A id \in Stored \ Visible : obj[id].index = Hidden

(* a pass with both buttons checked that hides a task, ranks two others and *)
(* started from indices that were not a ranking of the visible tasks        *)
C1_Witness ==
    /\ op.name = "applyFilterAndSorting"
    /\ hide /\ sortOn
    /\ Cardinality(Visible) >= 2
    /\ Stored \ Visible # {}
    /\ \E a, b \in PreStored : a # b /\ pre.obj[a].index = pre.obj[b].index

(* C2: after sortByPriority(active), of two tasks that had index >= 0 and   *)
(* differ in priority, the lower priority has the smaller index when active *)
(* is false and the higher priority has the smaller index when it is true.  *)
C2_SortOrdersByPriority ==
    op.name = "sortByPriority" =>
        \A a, b \in PreRanked :
            pre.obj[a].priority < pre.obj[b].priority =>
                IF op.flag THEN obj[b].index < obj[a].index
                ELSE obj[a].index < obj[b].index

(* a descending sort that had to swap two tasks *)
C2_Witness ==
    /\ op.name = "sortByPriority"
    /\ op.flag
    /\ \E a, b \in PreRanked :
        /\ pre.obj[a].priority < pre.obj[b].priority
        /\ pre.obj[a].index < pre.obj[b].index
        /\ obj[b].index < obj[a].index

(* C3 as stated: of two tasks with index >= 0 and equal priority, the one   *)
(* earlier in storage order gets the smaller index in both directions.      *)
C3_StableBothDirections ==
    op.name = "sortByPriority" =>
        \A a, b \in PreRanked :
            (pre.obj[a].priority = pre.obj[b].priority /\ Earlier(a, b)) =>
                obj[a].index < obj[b].index

(* C3 amended: of two tasks with index >= 0 and equal priority, the one     *)
(* earlier in storage order gets the smaller index when the flag is false   *)
(* and the larger index when it is true (the sorted list is reversed whole).*)
C3_StableAscendingReversedDescending ==
    op.name = "sortByPriority" =>
        \A a, b \in PreRanked :
            (pre.obj[a].priority = pre.obj[b].priority /\ Earlier(a, b)) =>
                IF op.flag THEN obj[b].index < obj[a].index
                ELSE obj[a].index < obj[b].index

(* a descending sort of two equal priorities and a third, different one:   *)
(* the task earlier in storage order ends below the later one               *)
C3_Witness ==
    /\ op.name = "sortByPriority"
    /\ op.flag
    /\ \E a, b \in PreRanked :
        /\ pre.obj[a].priority = pre.obj[b].priority
        /\ Earlier(a, b)
        /\ obj[b].index < obj[a].index
    /\ \E a, b \in PreRanked : pre.obj[a].priority # pre.obj[b].priority

(* C4: over the same store and the same k tasks with index >= 0, the        *)
(* descending ranking is the ascending one reversed: every such task has    *)
(* index k - 1 - (its index under the other direction).                     *)
C4_DescendingIsReverse ==
    op.name = "sortByPriority" =>
        \A t \in PreRanked :
            obj[t].index =
                Cardinality(PreRanked) - 1
                    - sortByPriority(pre.tasks, pre.obj, ~op.flag)[t].index

(* a sort of three ranked tasks, two of them of equal priority *)
C4_Witness ==
    /\ op.name = "sortByPriority"
    /\ Cardinality(PreRanked) >= 3
    /\ \E a, b \in PreRanked : a # b /\ pre.obj[a].priority = pre.obj[b].priority
    /\ \E a, b \in PreRanked : pre.obj[a].priority # pre.obj[b].priority

(* C5: filterFinished(True) sets index -1 on every task with status 2 and   *)
(* leaves every other index as it was; filterFinished(False) changes no     *)
(* index; neither changes a name, a priority, a status or the storage order.*)
C5_FilterFrame ==
    op.name = "filterFinished" =>
        /\ tasks = pre.tasks
        /\ DOMAIN obj = DOMAIN pre.obj
        /\ \A id \in DOMAIN obj :
            /\ SameFields(obj[id], pre.obj[id])
            /\ obj[id].index =
                IF op.flag /\ id \in Stored /\ pre.obj[id].status = Finished
                THEN Hidden
                ELSE pre.obj[id].index

(* filterFinished(True) that hid a ranked finished task beside an           *)
(* unfinished task whose index is not its storage position                  *)
C5_Witness ==
    /\ op.name = "filterFinished"
    /\ op.flag
    /\ \E id \in Stored : pre.obj[id].index >= 0 /\ obj[id].index = Hidden
    /\ \E id \in Stored :
        obj[id].status # Finished /\ obj[id].index # Pos(tasks, id) - 1

C7_AddTaskInsertsDefaultFirst ==
    op.name = "addTask" =>
        /\ Len(tasks) = Len(pre.tasks) + 1
        /\ tasks[1] = op.id
        /\ op.id \notin DOMAIN pre.obj
        /\ obj[op.id].name = "new task"
        /\ obj[op.id].priority = 1
        /\ obj[op.id].status = 0
        /\ Tail(tasks) = pre.tasks
        /\ \A id \in DOMAIN pre.obj : obj[id] = pre.obj[id]

(* addTask on a store of two tasks that differ from the default one *)
C7_Witness ==
    /\ op.name = "addTask"
    /\ Len(pre.tasks) = 2
    /\ \A id \in PreStored : ~SameFields(pre.obj[id], NewTask)

C9_SaveLoadRoundTrip ==
    (op.name = "TaskStore" /\ op.path = settingsFile) =>
        /\ \A i \in 1..Len(pre.tasks) :
            /\ i <= Len(tasks)
            /\ SameFields(obj[tasks[i]], pre.obj[pre.tasks[i]])
        /\ Len(pre.tasks) > 0 => Len(tasks) = Len(pre.tasks)
        /\ \A i \in 1..Len(tasks) : obj[tasks[i]].index = i - 1

(* a reload of two or more saved tasks, one with an empty name and a        *)
(* negative priority, one whose index in the file is not the index it gets  *)
C9_Witness ==
    /\ op.name = "TaskStore"
    /\ op.path = settingsFile
    /\ Len(pre.tasks) >= 2
    /\ \E id \in Stored : obj[id].name = "" /\ obj[id].priority < 0
    /\ \E i \in 1..Len(tasks) :
        files[op.path].tasks[i].index # {IntToStr(obj[tasks[i]].index)}

(* C10: when the task file does not exist, or exists without Task records,  *)
(* constructing the TaskStore raises nothing and the store holds exactly    *)
(* one task: name 'new task', priority 1, status 0, index 0.                *)
C10_NoRecordsGivesDefaultTask ==
    (/\ op.name \in {"MainWindow", "TaskStore"}
     /\ (~files[tasksFile].exists \/ Len(files[tasksFile].tasks) = 0)) =>
        /\ loadError(files[tasksFile]) = "none"
        /\ Len(tasks) = 1
        /\ DOMAIN obj = {tasks[1]}
        /\ obj[tasks[1]] =
            [name |-> "new task", priority |-> 1, status |-> 0, index |-> 0]

(* a store constructed from an existing file that holds no Task record *)
C10_Witness ==
    /\ op.name = "TaskStore"
    /\ files[tasksFile].exists
    /\ Len(files[tasksFile].tasks) = 0
    /\ Len(tasks) = 1

IntTexts == {{IntToStr(n)} : n \in (-99)..99}

BadRecord(e) == e.priority \notin IntTexts \/ e.status \notin IntTexts

Constructing == op.name \in {"MainWindow", "TaskStore"}

(* C11: when a Task record of the file has a priority or status text that   *)
(* is no integer, the construction ends in the ValueError of loadTasks and  *)
(* leaves no store: neither the records before the bad one nor a default    *)
(* task.                                                                    *)
C11_LoadAllOrNothing ==
    (/\ Constructing
     /\ \E i \in 1..Len(files[tasksFile].tasks) : BadRecord(files[tasksFile].tasks[i])) =>
        /\ raised = "ValueError"
        /\ tasks = <<>>
        /\ obj = <<>>

(* a file whose first record is sound and whose second is not *)
C11_Witness ==
    /\ Constructing
    /\ Len(files[tasksFile].tasks) = 2
    /\ ~BadRecord(files[tasksFile].tasks[1])
    /\ BadRecord(files[tasksFile].tasks[2])
    /\ raised = "ValueError"

(* C12: the path the tasks are written to by saveSettingsAndTasks is the    *)
(* path the task store was loaded from.                                     *)
C12_SavePathIsLoadPath ==
    op.name = "saveSettingsAndTasks" => op.path = tasksFile

(* C13: resetTasks, filterFinished, sortByPriority, the recompute pass,     *)
(* copyToClipboard and saveSettingsAndTasks leave the sequence of stored    *)
(* tasks and every name, priority and status as they were; copyToClipboard  *)
(* and saveSettingsAndTasks leave the indices too.                          *)
C13_OnlyAddAndDeleteChangeStorage ==
    /\ op.name \in {"resetTasks", "filterFinished", "sortByPriority",
                    "applyFilterAndSorting", "copyToClipboard",
                    "saveSettingsAndTasks"} =>
            /\ tasks = pre.tasks
            /\ DOMAIN obj = DOMAIN pre.obj
            /\ \A id \in DOMAIN obj : SameFields(obj[id], pre.obj[id])
    /\ op.name \in {"copyToClipboard", "saveSettingsAndTasks"} => obj = pre.obj

(* a recompute pass that changed the index of every one of three tasks of   *)
(* different priorities                                                     *)
C13_Witness ==
    /\ op.name = "applyFilterAndSorting"
    /\ Len(tasks) = 3
    /\ \A id \in Stored : obj[id].index # pre.obj[id].index
    /\ \E a, b \in Stored : obj[a].priority # obj[b].priority

(* C16: a Task object whose index deleteTask has set to -2 keeps that index *)
(* through every later call of the process (resetTasks, filterFinished,     *)
(* sortByPriority, addTask, deleteTask of another task).                    *)
C16_DeletedIndexStays ==
    [][\A id \in DOMAIN obj :
          (obj[id].index = Deleted /\ ~Constructing') =>
              (id \in DOMAIN obj' /\ obj'[id].index = Deleted)]_vars

(* a recompute pass with hide checked, run while a deleted finished task    *)
(* still exists beside a stored task that the pass hides                    *)
C16_Witness ==
    /\ op.name = "applyFilterAndSorting"
    /\ hide
    /\ \E id \in DOMAIN obj \ Stored :
        obj[id].index = Deleted /\ obj[id].status = Finished
    /\ \E id \in Stored : obj[id].index = Hidden

-----------------------------------------------------------------------------
(* Claims about the panel driven by its events *)

Restarted == op.name = "MainWindow" /\ op.flag

(* C14: the two toggle states written by saveSettingsAndTasks are the ones *)
(* loadSettings restores at the next start, and the pass run during that   *)
(* start uses them: the indices after the start are those the pass gives   *)
(* under the saved toggles, so a stored task is hidden exactly when the    *)
(* saved hide toggle was checked and it is finished.                       *)
C14_SettingsRoundTrip ==
    [][Restarted' =>
        /\ raised' = "none"
        /\ hide' = hide
        /\ sortOn' = sortOn
        /\ obj' = applyFilterAndSorting(tasks', obj', hide, sortOn)
        /\ \A id \in Range(tasks') :
            (obj'[id].index = Hidden) <=> (hide /\ obj'[id].status = Finished)]_vars

C14_Witness ==
    /\ Restarted
    /\ hide /\ sortOn
    /\ \E id \in Stored : obj[id].index = Hidden
    /\ \E id \in Stored : obj[id].index = 0 /\ Pos(tasks, id) > 1

(* C15: after every completed event handler no task held by the store has *)
(* index -2: the deleted task has left the list before any later pass.     *)
C15_NoStoredTaskDeleted ==
    \A id \in Stored : obj[id].index # Deleted

C15_Witness ==
    /\ op.name = "priorityLeave"
    /\ Stored # {}
    /\ \E id \in DOMAIN obj : obj[id].index = Deleted /\ id \notin Stored

(* C17: after every completed event handler a stored task has index -1    *)
(* exactly when the hide toggle is checked and its status is Finished.     *)
C17_HiddenIffFinishedAndHide ==
    \A id \in Stored :
        (obj[id].index = Hidden) <=> (hide /\ obj[id].status = Finished)

(* C18: after every completed event handler the stored tasks with an index *)
(* of 0 or more carry pairwise distinct indices that are exactly 0..k-1.   *)
C18_RankedIndicesDense ==
    /\ \A a, b \in Ranked : obj[a].index = obj[b].index => a = b
    /\ {obj[id].index : id \in Ranked} = 0..(Cardinality(Ranked) - 1)

C18_Witness ==
    /\ op.name = "onAddTask"
    /\ Cardinality(Ranked) >= 2
    /\ obj[tasks[1]].index = 0

(* C19: the row of a deleted task is no longer in taskWidgets, was put     *)
(* into exactly one group of deleted widgets (the update of its delete     *)
(* click saw it with index -2), is in no group a later update builds, and  *)
(* is detached from the container once its group has finished, as long as  *)
(* the process runs, also while other deleted rows are still sliding out.  *)
GroupsOf(w) ==
    {i \in 1..Len(view.animGroupsDeleted) : w \in Range(view.animGroupsDeleted[i])}

DeletedRow(w) == w \in DOMAIN obj /\ obj[w].index = Deleted

C19_DeletedWidgetLeaves ==
    /\ [](\A w \in Ids : DeletedRow(w) =>
            /\ w \notin Range(view.taskWidgets)
            /\ view.grouped[w] = 1
            /\ w \notin view.animGroup
            /\ Cardinality(GroupsOf(w)) = (IF w \in view.attached THEN 1 ELSE 0))
    /\ \A w \in Ids :
        (DeletedRow(w) /\ w \in view.attached)
            ~> (~AppRunning \/ (DeletedRow(w) /\ w \notin view.attached))

C19_Witness ==
    /\ AppRunning
    /\ \E w \in Ids : DeletedRow(w) /\ w \notin view.attached /\ view.grouped[w] = 1
    /\ \E w \in Ids : DeletedRow(w) /\ w \in view.attached /\ Cardinality(GroupsOf(w)) = 1

(* C20: after every completed event handler taskWidgets holds exactly one  *)
(* widget per stored task and no widget of a task that is not stored.      *)
C20_ViewMatchesStore ==
    /\ Range(view.taskWidgets) = Stored
    /\ Len(view.taskWidgets) = Cardinality(Stored)

C20_Witness ==
    /\ op.name = "deleteClicked"
    /\ Stored # {}
    /\ DOMAIN obj \ Stored # {}
    /\ Range(view.taskWidgets) = Stored

(* C21: a left click on a row's priority widget raises the task's priority *)
(* by exactly 1 and a right click lowers it by exactly 1, also to 0 and    *)
(* below; after the click the priority equals the widget's value; the      *)
(* click changes no index and no other field, and the indices are those of *)
(* a new pass once the pointer has left the widget.                        *)
C21_ClickStepsPriorityLeaveRecomputes ==
    [][/\ op'.name = "priorityClicked" =>
            /\ obj'[op'.id].priority = obj[op'.id].priority + (IF op'.flag THEN 1 ELSE -1)
            /\ obj'[op'.id].priority = view'.value[op'.id]
            /\ \A id \in DOMAIN obj :
                /\ obj'[id].index = obj[id].index
                /\ obj'[id].status = obj[id].status
                /\ id # op'.id => obj'[id].priority = obj[id].priority
            /\ tasks' = tasks
       /\ op'.name = "priorityLeave" =>
            obj' = applyFilterAndSorting(tasks, obj, hide, sortOn)]_vars

C21_Witness ==
    /\ op.name = "priorityClicked"
    /\ ~op.flag
    /\ obj[op.id].priority < 0
    /\ view.value[op.id] = obj[op.id].priority
    /\ obj # applyFilterAndSorting(tasks, obj, hide, sortOn)

(* C22: the pass depends on the storage order, the priorities, the         *)
(* statuses and the two flags only: run on the same tasks with any other   *)
(* indices in place of the ones an earlier call left (-1, 0 or more),      *)
(* it gives the indices it gave; run again on its own result, it gives     *)
(* that result.                                                            *)
PriorIndices == {Hidden, DefaultIndex, MaxIds}

WithIndices(o, f) ==
    [id \in DOMAIN o |-> IF id \in DOMAIN f THEN [o[id] EXCEPT !.index = f[id]] ELSE o[id]]

C22_PassIgnoresPriorIndices ==
    op.name = "applyFilterAndSorting" =>
        /\ obj = applyFilterAndSorting(tasks, obj, hide, sortOn)
        /\ \A f \in [Stored -> PriorIndices] :
            applyFilterAndSorting(tasks, WithIndices(obj, f), hide, sortOn) = obj

(* a pass with hide unchecked that started from a store in which an        *)
(* earlier filterFinished call had left a task at -1                       *)
C22_Witness ==
    /\ op.name = "applyFilterAndSorting"
    /\ ~hide
    /\ Cardinality(Stored) >= 2
    /\ \E id \in Stored : pre.obj[id].index = Hidden /\ obj[id].index >= 0
    /\ \E id \in Stored : pre.obj[id].index >= 0 /\ pre.obj[id].index # obj[id].index

(* C23: whenever copyToClipboard has run, the copied text lists exactly    *)
(* the stored tasks with index >= 0, one line each, in the order of their  *)
(* indices, the order in which the rows are displayed top to bottom.       *)
RankedAt(i) == {id \in Ranked : obj[id].index = i}

Displayed ==
    /\ Len(clipboard) = Cardinality(Ranked)
    /\ \A i \in 1..Len(clipboard) :
        \E id \in RankedAt(i - 1) : clipboard[i] = TaskLine(obj[id])

C23_ClipboardMatchesDisplay ==
    (op.name = "copyToClipboard" /\ raised = "none") => Displayed

(* C24 as stated: the store built at the next start from the file that the *)
(* close has written holds as many tasks as the store held at the close,   *)
(* the empty store included.                                               *)
C24_ReloadKeepsCount ==
    [][Restarted' => Len(tasks') = Len(tasks)]_vars

(* C24: the store built at the next start from the file that the close has *)
(* written holds as many tasks as the store held at the close when it held *)
(* any; an empty store comes back as one default task.                     *)
C24_ReloadKeepsCountOrDefault ==
    [][Restarted' =>
        /\ raised' = "none"
        /\ Len(tasks) > 0 => Len(tasks') = Len(tasks)
        /\ Len(tasks) = 0 =>
            /\ Len(tasks') = 1
            /\ SameFields(obj'[tasks'[1]], NewTask)]_vars

(* a start from a file that was written with no Task record, after the     *)
(* last row had been deleted                                               *)
C24_Witness ==
    /\ Restarted
    /\ files[tasksFile].exists
    /\ Len(files[tasksFile].tasks) = 0
    /\ Len(tasks) = 1

====
